---- MODULE Spec2Model ----
(***************************************************************************)
(* CappedMultiset (src/src/lib.rs): a Vec<u32> of elements and a u32 cap   *)
(* that is applied when the elements are read.                             *)
(*                                                                         *)
(* A u32 is kept at its full width.  TLC's integers stop at 2^31 - 1, so a *)
(* u32 is written as two 16-bit limbs, [hi, lo], standing for              *)
(* hi * 2^16 + lo.                                                         *)
(***************************************************************************)
EXTENDS Integers, Sequences, FiniteSets, TLC

VARIABLES
    a,                \* the left operand, a CappedMultiset
    b,                \* the right operand, a CappedMultiset
    r,                \* the value returned by the last a & b or a | b
    live,             \* the bindings that still own a value (not moved out)
    item,             \* the Vec<u32> that a was constructed from
    last,             \* the last call: its name, receiver, and operands as they were before it
    ret,              \* what the last sum() call produced
    overflow_checks   \* the build: TRUE when arithmetic overflow panics (debug profile)

vars == <<a, b, r, live, item, last, ret, overflow_checks>>

----------------------------------------------------------------------------
(* Bounds of the model *)

\* longest Vec<u32> handed to CappedMultiset::new
MaxLen == 2

----------------------------------------------------------------------------
(* u32 *)

Limb == 65536

U32(hi, lo) == [hi |-> hi, lo |-> lo]

Zero == U32(0, 0)
One == U32(0, 1)
Two == U32(0, 2)

\* u32::max_value()
U32Max == U32(Limb - 1, Limb - 1)

\* x <= y on u32
Le(x, y) == x.hi < y.hi \/ (x.hi = y.hi /\ x.lo <= y.lo)

\* std::cmp::min
min(x, y) == IF Le(x, y) THEN x ELSE y

\* max as it would be if union added the two multiplicities
max_as_sum(x, y) ==
    U32((x.hi + y.hi + ((x.lo + y.lo) \div Limb)) % Limb, (x.lo + y.lo) % Limb)

\* std::cmp::max
max(x, y) == IF Le(x, y) THEN y ELSE x

\* x + y on u32: the wrapped value, and whether the addition overflowed
AddU32(x, y) ==
    LET lo == x.lo + y.lo
        hi == x.hi + y.hi + (lo \div Limb)
    IN  [val |-> U32(hi % Limb, lo % Limb), overflow |-> hi >= Limb]

\* Option<u32>
None == [some |-> FALSE, val |-> Zero]
Some(c) == [some |-> TRUE, val |-> c]

\* Option::unwrap_or
unwrap_or(opt, default) == IF opt.some THEN opt.val ELSE default

----------------------------------------------------------------------------
(* CappedMultiset *)

\* CappedMultiset::new
new(vec) == [elements |-> vec, cap |-> U32Max]

\* the outcome of a call that returns a u32 or panics
Returned(v) == [panic |-> FALSE, val |-> v]
Panicked == [panic |-> TRUE, val |-> Zero]

\* the loop of CappedMultiset::sum: `sum += elem` over the capped elements.
\* An overflowing += panics when the build checks overflow and wraps otherwise.
RECURSIVE sum_loop(_, _, _)
sum_loop(elems, cap, acc) ==
    IF elems = <<>>
    THEN Returned(acc)
    ELSE LET s == AddU32(acc, min(Head(elems), cap))
         IN  IF s.overflow /\ overflow_checks
             THEN Panicked
             ELSE sum_loop(Tail(elems), cap, s.val)

\* CappedMultiset::sum
sum(self) == sum_loop(self.elements, self.cap, Zero)

\* set_cap as it would be if the cap were applied to the stored elements
set_cap_truncating(self, cap) ==
    [elements |-> [i \in 1..Len(self.elements) |->
                       IF Le(self.elements[i], unwrap_or(cap, U32Max))
                       THEN self.elements[i]
                       ELSE unwrap_or(cap, U32Max)],
     cap |-> unwrap_or(cap, U32Max)]

\* CappedMultiset::set_cap
set_cap(self, cap) == [self EXCEPT !.cap = unwrap_or(cap, U32Max)]

\* the zip as it would be if the result were cut to the shorter operand
zip_min_truncating(e1s, e2s) ==
    [i \in 1..(IF Len(e1s) <= Len(e2s) THEN Len(e1s) ELSE Len(e2s)) |->
        IF Le(e1s[i], e2s[i]) THEN e1s[i] ELSE e2s[i]]

\* self.elements.iter_mut().zip(rhs.elements.iter()) with *e1 = f(*e1, *e2):
\* the positions both have are rewritten, the others are left as they are
zip_min(e1s, e2s) ==
    [i \in 1..Len(e1s) |-> IF i <= Len(e2s) THEN min(e1s[i], e2s[i]) ELSE e1s[i]]

zip_max(e1s, e2s) ==
    [i \in 1..Len(e1s) |-> IF i <= Len(e2s) THEN max(e1s[i], e2s[i]) ELSE e1s[i]]

\* bitand_assign as it would be if it also dropped the cap of the left operand
bitand_assign_resetting(self, rhs) ==
    [elements |-> zip_min(self.elements, rhs.elements), cap |-> U32Max]

\* BitAndAssign<CappedMultiset>::bitand_assign (rhs by value)
bitand_assign(self, rhs) == [self EXCEPT !.elements = zip_min(self.elements, rhs.elements)]

\* BitAndAssign<&CappedMultiset>::bitand_assign (rhs borrowed)
bitand_assign_ref(self, rhs) == [self EXCEPT !.elements = zip_min(self.elements, rhs.elements)]

\* bitand as it would be if it combined the capped views of the operands
bitand_of_capped_views(self, rhs) ==
    new([i \in 1..Len(self.elements) |->
            IF i <= Len(rhs.elements)
            THEN min(min(self.elements[i], self.cap), min(rhs.elements[i], rhs.cap))
            ELSE min(self.elements[i], self.cap)])

\* bitand as it would be if the result were the left operand itself, cap included
bitand_keeping_cap(self, rhs) ==
    [self EXCEPT !.elements = zip_min(self.elements, rhs.elements)]

\* BitAnd::bitand
bitand(self, rhs) == bitand_assign(new(self.elements), rhs)

\* BitOrAssign<CappedMultiset>::bitor_assign (rhs by value)
bitor_assign(self, rhs) == [self EXCEPT !.elements = zip_max(self.elements, rhs.elements)]

\* BitOrAssign<&CappedMultiset>::bitor_assign (rhs borrowed)
bitor_assign_ref(self, rhs) == [self EXCEPT !.elements = zip_max(self.elements, rhs.elements)]

\* BitOr::bitor
bitor(self, rhs) == bitor_assign(new(self.elements), rhs)

----------------------------------------------------------------------------
(* Inputs *)

\* the u32 values that elements are drawn from
Values == {One, Two, U32Max}

\* the arguments given to set_cap
Caps == {None, Some(Zero), Some(One), Some(U32Max)}

\* the vectors handed to CappedMultiset::new
Vecs == UNION {[1..n -> Values] : n \in 0..MaxLen}

\* a binding whose value has been moved out
Moved == new(<<>>)

NoCall == [op |-> "new", self |-> "a", lhs |-> Moved, rhs |-> Moved, arg |-> None]

NoRet == Returned(Zero)

Get(n) == IF n = "a" THEN a ELSE IF n = "b" THEN b ELSE r

----------------------------------------------------------------------------
(* The program *)

Init ==
    /\ item \in Vecs
    /\ a = new(item)
    /\ \E v \in Vecs : b = new(v)
    /\ r = Moved
    /\ live = {"a", "b"}
    /\ last = NoCall
    /\ ret = NoRet
    /\ overflow_checks \in BOOLEAN

\* n.set_cap(cap)
SetCap(n, cap) ==
    /\ n \in live \cap {"a", "b"}
    /\ a' = IF n = "a" THEN set_cap(a, cap) ELSE a
    /\ b' = IF n = "b" THEN set_cap(b, cap) ELSE b
    /\ last' = [op |-> "set_cap", self |-> n, lhs |-> Get(n), rhs |-> Moved, arg |-> cap]
    /\ ret' = NoRet
    /\ UNCHANGED <<r, live, item, overflow_checks>>

\* n.sum()
Sum(n) ==
    /\ n \in live
    /\ ret' = sum(Get(n))
    /\ last' = [op |-> "sum", self |-> n, lhs |-> Get(n), rhs |-> Moved, arg |-> None]
    /\ UNCHANGED <<a, b, r, live, item, overflow_checks>>

\* a &= b : b is moved into the call
BitAndAssign ==
    /\ {"a", "b"} \subseteq live
    /\ a' = bitand_assign(a, b)
    /\ b' = Moved
    /\ live' = {"a"}
    /\ last' = [op |-> "bitand_assign", self |-> "a", lhs |-> a, rhs |-> b, arg |-> None]
    /\ ret' = NoRet
    /\ UNCHANGED <<r, item, overflow_checks>>

\* a &= &b
BitAndAssignRef ==
    /\ {"a", "b"} \subseteq live
    /\ a' = bitand_assign_ref(a, b)
    /\ last' = [op |-> "bitand_assign_ref", self |-> "a", lhs |-> a, rhs |-> b, arg |-> None]
    /\ ret' = NoRet
    /\ UNCHANGED <<b, r, live, item, overflow_checks>>

\* r = a & b : both operands are moved into the call
BitAnd ==
    /\ {"a", "b"} \subseteq live
    /\ r' = bitand(a, b)
    /\ a' = Moved
    /\ b' = Moved
    /\ live' = {"r"}
    /\ last' = [op |-> "bitand", self |-> "r", lhs |-> a, rhs |-> b, arg |-> None]
    /\ ret' = NoRet
    /\ UNCHANGED <<item, overflow_checks>>

\* a |= b : b is moved into the call
BitOrAssign ==
    /\ {"a", "b"} \subseteq live
    /\ a' = bitor_assign(a, b)
    /\ b' = Moved
    /\ live' = {"a"}
    /\ last' = [op |-> "bitor_assign", self |-> "a", lhs |-> a, rhs |-> b, arg |-> None]
    /\ ret' = NoRet
    /\ UNCHANGED <<r, item, overflow_checks>>

\* a |= &b
BitOrAssignRef ==
    /\ {"a", "b"} \subseteq live
    /\ a' = bitor_assign_ref(a, b)
    /\ last' = [op |-> "bitor_assign_ref", self |-> "a", lhs |-> a, rhs |-> b, arg |-> None]
    /\ ret' = NoRet
    /\ UNCHANGED <<b, r, live, item, overflow_checks>>

\* r = a | b : both operands are moved into the call
BitOr ==
    /\ {"a", "b"} \subseteq live
    /\ r' = bitor(a, b)
    /\ a' = Moved
    /\ b' = Moved
    /\ live' = {"r"}
    /\ last' = [op |-> "bitor", self |-> "r", lhs |-> a, rhs |-> b, arg |-> None]
    /\ ret' = NoRet
    /\ UNCHANGED <<item, overflow_checks>>

Next ==
    \/ \E n \in {"a", "b"}, cap \in Caps : SetCap(n, cap)
    \/ \E n \in {"a", "b", "r"} : Sum(n)
    \/ BitAndAssign
    \/ BitAndAssignRef
    \/ BitAnd
    \/ BitOrAssign
    \/ BitOrAssignRef
    \/ BitOr

Spec == Init /\ [][Next]_vars

\* a multiset that is only read and capped: no operator is applied to it
NextCap ==
    \/ \E n \in {"a", "b"}, cap \in Caps : SetCap(n, cap)
    \/ \E n \in {"a", "b"} : Sum(n)

SpecCap == Init /\ [][NextCap]_vars

----------------------------------------------------------------------------
(* The sums the claims speak of, as natural numbers kept in two columns:   *)
(* the total is hi * 2^16 + lo, with neither column reduced.               *)

RECURSIVE ColumnSum(_, _, _)
ColumnSum(elems, c, n) ==
    IF n = 0
    THEN [hi |-> 0, lo |-> 0]
    ELSE LET m == IF Le(elems[n], c) THEN elems[n] ELSE c
             s == ColumnSum(elems, c, n - 1)
         IN  [hi |-> s.hi + m.hi, lo |-> s.lo + m.lo]

\* the sum over all positions of min(v, c)
CappedTotal(elems, c) == ColumnSum(elems, c, Len(elems))

\* the total fits in a u32
Fits(t) == t.hi + (t.lo \div Limb) < Limb

\* the total modulo 2^32
Mod32(t) == U32((t.hi + (t.lo \div Limb)) % Limb, t.lo % Limb)

Lesser(x, y) == IF Le(y, x) THEN y ELSE x
Greater(x, y) == IF Le(y, x) THEN x ELSE y
Shorter(s, t) == IF Len(s) <= Len(t) THEN Len(s) ELSE Len(t)

InPlaceAnd == {"bitand_assign", "bitand_assign_ref"}
InPlaceOr == {"bitor_assign", "bitor_assign_ref"}
InPlace == InPlaceAnd \cup InPlaceOr
Intersections == InPlaceAnd \cup {"bitand"}
Unions == InPlaceOr \cup {"bitor"}

\* the multiset the last operator call wrote: r for a & b and a | b, a for the in-place forms
Result == IF last.op \in {"bitand", "bitor"} THEN r ELSE a

----------------------------------------------------------------------------
(* C1 *)

\* C1: sum() returns the sum over all positions of min(v, cap), v the stored
\* value at the position (in u32 arithmetic), whatever cap has been set.
C1_SumIsPerElementCappedSum ==
    last.op = "sum" =>
        ret = Returned(Mod32(CappedTotal(last.lhs.elements, last.lhs.cap)))

----------------------------------------------------------------------------
(* C2 *)

\* C2: after any sequence of set_cap calls the stored elements are the ones the
\* multiset was constructed with, and right after set_cap(None) sum() gives what
\* it gave on the freshly constructed multiset.
C2_SetCapIsLossless ==
    /\ a.elements = item
    /\ (last.op = "set_cap" /\ last.self = "a" /\ last.arg = None) =>
           sum(a) = sum(new(item))

\* a cap of 0 that changed the sum has just been removed again
C2_Witness ==
    /\ last.op = "set_cap" /\ last.self = "a" /\ last.arg = None
    /\ last.lhs.cap = Zero
    /\ Len(item) = 2
    /\ sum(last.lhs) # sum(a)

----------------------------------------------------------------------------
(* C3 *)

\* C3: with no cap, or a cap no smaller than the largest stored element, sum()
\* returns the sum of the stored elements (in u32 arithmetic).
C3_UncappedSumIsExact ==
    (/\ last.op = "sum"
     /\ \/ last.lhs.cap = U32Max
        \/ \A i \in 1..Len(last.lhs.elements) : Le(last.lhs.elements[i], last.lhs.cap))
    => ret = Returned(Mod32(CappedTotal(last.lhs.elements, U32Max)))

----------------------------------------------------------------------------
(* C10 *)

\* C10: sum() never fails: when the sum of the capped elements exceeds
\* u32::max_value(), it returns that sum modulo 2^32.
C10_SumWrapsAndNeverFails ==
    (/\ last.op = "sum"
     /\ ~Fits(CappedTotal(last.lhs.elements, last.lhs.cap)))
    => /\ ~ret.panic
       /\ ret.val = Mod32(CappedTotal(last.lhs.elements, last.lhs.cap))

----------------------------------------------------------------------------
(* C4 *)

\* C4: for operands of equal length, whatever their caps, a & b stores
\* min(a[i], b[i]) and a | b stores max(a[i], b[i]) at every position i,
\* taken from the stored values and not from the capped ones.
C4_ValueOperatorsUseStoredValues ==
    LET l == last.lhs.elements
        q == last.rhs.elements
    IN  /\ (last.op = "bitand" /\ Len(l) = Len(q)) =>
               r.elements = [i \in 1..Len(l) |-> Lesser(l[i], q[i])]
        /\ (last.op = "bitor" /\ Len(l) = Len(q)) =>
               r.elements = [i \in 1..Len(l) |-> Greater(l[i], q[i])]

\* an intersection whose operands both carried a cap below the value it stored
C4_Witness ==
    /\ last.op = "bitand"
    /\ Len(last.lhs.elements) = 2 /\ Len(last.rhs.elements) = 2
    /\ last.lhs.cap = One /\ last.rhs.cap = Zero
    /\ last.lhs.elements[1] = U32Max /\ last.rhs.elements[1] = Two
    /\ r.elements[1] = Two

----------------------------------------------------------------------------
(* C5 *)

\* C5: the multiset returned by a & b or a | b has no cap, whatever caps the
\* operands had: sum() on it is the sum of its stored elements.
C5_ResultIsUncapped ==
    /\ last.op \in {"bitand", "bitor"} => r.cap = U32Max
    /\ (last.op = "sum" /\ last.self = "r") =>
           /\ r.cap = U32Max
           /\ ret = Returned(Mod32(CappedTotal(r.elements, U32Max)))

----------------------------------------------------------------------------
(* C6 *)

\* C6 as stated: with operands of different lengths the result has
\* min(len(lhs), len(rhs)) elements, the i-th being the min (intersection) or
\* max (union) of lhs[i] and rhs[i].
C6_ResultCutToShorter ==
    LET l == last.lhs.elements
        q == last.rhs.elements
    IN  last.op \in Intersections \cup Unions =>
            /\ Len(Result.elements) = Shorter(l, q)
            /\ \A i \in 1..Shorter(l, q) :
                   Result.elements[i] = IF last.op \in Intersections
                                        THEN Lesser(l[i], q[i])
                                        ELSE Greater(l[i], q[i])

\* C6 as amended: the result always has len(lhs) elements; the first
\* min(len(lhs), len(rhs)) are the min (intersection) or max (union) of lhs[i]
\* and rhs[i], the elements of lhs beyond len(rhs) are kept as they were, and
\* the elements of rhs beyond len(lhs) are ignored.
C6_ResultKeepsLeftLength ==
    LET l == last.lhs.elements
        q == last.rhs.elements
    IN  last.op \in Intersections \cup Unions =>
            /\ Len(Result.elements) = Len(l)
            /\ \A i \in 1..Shorter(l, q) :
                   Result.elements[i] = IF last.op \in Intersections
                                        THEN Lesser(l[i], q[i])
                                        ELSE Greater(l[i], q[i])
            /\ \A i \in (Len(q) + 1)..Len(l) : Result.elements[i] = l[i]

\* an intersection whose left operand was the longer one
C6_Witness ==
    /\ last.op \in Intersections
    /\ Len(last.lhs.elements) = 2 /\ Len(last.rhs.elements) = 1
    /\ Result.elements[1] # last.lhs.elements[1]
    /\ Result.elements[2] = last.lhs.elements[2]

----------------------------------------------------------------------------
(* C7 *)

\* C7: a & a and a | a store the same elements as a, for any elements and cap.
C7_IdempotentOnStoredValues ==
    (last.op \in {"bitand", "bitor"} /\ last.lhs = last.rhs) =>
        r.elements = last.lhs.elements

\* a union of a capped, two-element multiset with its clone
C7_Witness ==
    /\ last.op = "bitor"
    /\ last.lhs = last.rhs
    /\ last.lhs.cap = One
    /\ Len(last.lhs.elements) = 2
    /\ last.lhs.elements[1] = Two
    /\ r.elements = last.lhs.elements

----------------------------------------------------------------------------
(* C8 *)

\* C8: for operands of equal length, whatever their caps, a & b equals b & a
\* and a | b equals b | a, elements and cap.
C8_Commutative ==
    LET l == last.lhs
        q == last.rhs
    IN  /\ (last.op = "bitand" /\ Len(l.elements) = Len(q.elements)) => r = bitand(q, l)
        /\ (last.op = "bitor" /\ Len(l.elements) = Len(q.elements)) => r = bitor(q, l)

\* an intersection of operands that differ in elements and in cap
C8_Witness ==
    /\ last.op = "bitand"
    /\ Len(last.lhs.elements) = 2 /\ Len(last.rhs.elements) = 2
    /\ last.lhs.elements[1] = One /\ last.rhs.elements[1] = Two
    /\ last.lhs.elements[2] = U32Max /\ last.rhs.elements[2] = One
    /\ last.lhs.cap = One /\ last.rhs.cap = U32Max

----------------------------------------------------------------------------
(* C9 *)

\* C9: a &= b and a |= b, with b owned or borrowed, leave the cap and the length
\* of a as they were, and leave a borrowed b as it was; so when a has a cap set
\* (a cap other than u32::max_value(), which is how "no cap" is stored), a &= b
\* leaves a with another cap than the value a & b carries.
C9_InPlaceKeepsCapAndLength ==
    /\ last.op \in InPlace =>
           /\ a.cap = last.lhs.cap
           /\ Len(a.elements) = Len(last.lhs.elements)
    /\ last.op \in {"bitand_assign_ref", "bitor_assign_ref"} =>
           /\ "b" \in live
           /\ b = last.rhs
    /\ (last.op \in InPlaceAnd /\ last.lhs.cap # U32Max) =>
           a.cap # bitand(last.lhs, last.rhs).cap
    /\ (last.op \in InPlaceOr /\ last.lhs.cap # U32Max) =>
           a.cap # bitor(last.lhs, last.rhs).cap

\* a capped a has been intersected in place with a borrowed, shorter b
C9_Witness ==
    /\ last.op = "bitand_assign_ref"
    /\ last.lhs.cap = One
    /\ Len(last.lhs.elements) = 2 /\ Len(last.rhs.elements) = 1
    /\ a.elements # last.lhs.elements
    /\ b.cap = Zero

====
